---- MODULE Spec2Model ----
(***************************************************************************)
(* Model of the single-instance file lock of singleton.py (class Lock,     *)
(* class SingleInstance) on its non-Windows branch.                        *)
(*                                                                         *)
(* Each participant is an OS process that runs f(name, func): it           *)
(* constructs one SingleInstance, runs func while holding, and destroys    *)
(* the guard on return.  The processes share one lock path.  The file      *)
(* system is modelled as the kernel sees it: the path names an inode (or   *)
(* nothing), an inode has a content and at most one owner of its record    *)
(* lock, and an open file object keeps naming its inode after the path     *)
(* has been unlinked.                                                      *)
(*                                                                         *)
(* Further parts: SingleInstance.lockfile_path as a function on texts, the *)
(* system calls of acquire_lockfile failing for reasons other than         *)
(* contention, and processes that use FileLock of lockfile.py as a context *)
(* manager with a blocking acquire.                                        *)
(***************************************************************************)
EXTENDS Integers, Sequences, FiniteSets, TLC

\* Number of guard processes that use the lock path.
NumProcs == 3

Procs == 1..NumProcs

\* A process that only calls SingleInstance.get_pid and never takes the lock.
Observer == 0

Callers == Procs \cup {Observer}

\* Python's None, for Lock.fobj and for "no inode at the path".
None == 0

\* Every open() of the lock path creates at most one inode, and one more may
\* be left over from an earlier run.
Inodes == 1..(NumProcs + 1)

VARIABLES
    path,         \* inode the lock path names, or None when no file exists
    content,      \* content[i]: the characters of inode i
    lockOwner,    \* lockOwner[i]: process owning the record lock on i, or None
    nextIno,      \* next unused inode number
    pc,           \* pc[p]: where process p is in f()
    initialized,  \* initialized[p]: Lock.initialized of p's lock object
    fobj,         \* fobj[p]: inode of Lock.fobj of p's lock object, or None
    exitcode,     \* exitcode[p]: {} while p runs, {status} once it has ended
    gpc,          \* gpc[c]: where caller c is inside get_pid
    ret,          \* value of the get_pid call that completed last
    last,         \* history: what has happened since the last acquire step
    seen,         \* history: seen[p] = the processes Holding when p opened the path
    looked        \* the last call of SingleInstance.lockfile_path and its result

vars == <<path, content, lockOwner, nextIno, pc, initialized, fobj, exitcode,
          gpc, ret, last, seen, looked>>

fsVars == <<path, content, lockOwner, nextIno>>
procVars == <<pc, initialized, fobj, exitcode>>
gpVars == <<gpc, ret>>

----------------------------------------------------------------------------
\* Text of the pid record.

Digits == <<"0", "1", "2", "3", "4", "5", "6", "7", "8", "9">>

NL == "\n"

IsDigit(ch) == \E d \in 1..10 : Digits[d] = ch

DigitVal(ch) == (CHOOSE d \in 1..10 : Digits[d] = ch) - 1

RECURSIVE Str(_)
\* '%d' % n for n >= 0
Str(n) == IF n < 10 THEN <<Digits[n + 1]>>
          ELSE Str(n \div 10) \o <<Digits[(n % 10) + 1]>>

\* '%d\n' % pid
FormatPid(n) == Str(n) \o <<NL>>

\* c.endswith('\n')
EndsWithNL(c) == Len(c) > 0 /\ c[Len(c)] = NL

RECURSIVE Strip(_)
\* int() ignores leading and trailing whitespace
Strip(c) == IF Len(c) = 0 THEN c
            ELSE IF c[1] = NL THEN Strip(Tail(c))
            ELSE IF c[Len(c)] = NL THEN Strip(SubSeq(c, 1, Len(c) - 1))
            ELSE c

RECURSIVE Val(_)
Val(s) == IF Len(s) = 0 THEN 0
          ELSE 10 * Val(SubSeq(s, 1, Len(s) - 1)) + DigitVal(s[Len(s)])

RetNone == [kind |-> "None", val |-> 0]
RetInt(n) == [kind |-> "int", val |-> n]
Raised(e) == [kind |-> e, val |-> 0]

\* int(c): the number, or ValueError when the stripped text is not all digits
ParseInt(c) ==
    LET s == Strip(c)
    IN  IF Len(s) > 0 /\ \A i \in 1..Len(s) : IsDigit(s[i])
        THEN RetInt(Val(s))
        ELSE Raised("ValueError")

\* fobj.write(data); fobj.flush() on a file object whose position is 0
WriteAtStart(old, data) ==
    IF Len(old) <= Len(data) THEN data
    ELSE data \o SubSeq(old, Len(data) + 1, Len(old))

\* os.getpid() of process p
PidOf(p) == IF p = 1 THEN 7 ELSE 120 + p

\* pids of earlier runs whose record may have been left on disk
StalePids == {9}

\* exit status of sys.exit(n) as the parent sees it
ExitStatus(n) == n % 256

\* multiprocessing reports death by signal 11 as -11
SIGSEGV == 11

\* History of the lock path.  "wrote": who wrote its pid record, no process
\* having made a step of an acquire (open or lock attempt) since.  "crashed":
\* that writer then died while Holding.  "released": who completed a release,
\* no process having made a step of an acquire since.
Nothing == [how |-> "nothing", who |-> None]
Event(h, p) == [how |-> h, who |-> p]

----------------------------------------------------------------------------
\* SingleInstance.lockfile_path.  A path is a sequence of characters.

\* Longest program path given to lockfile_path.
MaxPathLen == 2

\* Characters of program paths: the separators, the colon, the dot, a dash
\* and a letter.
PathChars == {"/", "\\", ":", ".", "-", "a"}

RECURSIVE Texts(_, _)
Texts(chars, n) ==
    IF n = 0 THEN {<<>>}
    ELSE LET shorter == Texts(chars, n - 1)
         IN shorter \cup {Append(t, c) : t \in shorter, c \in chars}

ProgramPaths == Texts(PathChars, MaxPathLen)

\* Flavor tags: none, or a name.
Flavors == {<<>>, <<"a">>}

\* os.getcwd() and tempfile.gettempdir() of the calling process.
Cwd == <<"/", "w">>
TempDir == <<"/", "t">>

StartsWith(s, t) == Len(s) >= Len(t) /\ SubSeq(s, 1, Len(t)) = t

\* path.split('/')
RECURSIVE SplitSlash(_)
SplitSlash(s) ==
    IF \A k \in 1..Len(s) : s[k] # "/" THEN <<s>>
    ELSE LET k == CHOOSE j \in 1..Len(s) :
                     s[j] = "/" /\ \A h \in 1..(j - 1) : s[h] # "/"
         IN <<SubSeq(s, 1, k - 1)>> \o SplitSlash(SubSeq(s, k + 1, Len(s)))

\* '/'.join(comps)
RECURSIVE JoinSlash(_)
JoinSlash(comps) ==
    IF comps = <<>> THEN <<>>
    ELSE IF Len(comps) = 1 THEN comps[1]
    ELSE comps[1] \o <<"/">> \o JoinSlash(Tail(comps))

\* The loop of posixpath.normpath over the components: empty and '.'
\* components are skipped, '..' removes the component before it unless
\* there is none to remove.
RECURSIVE NormComps(_, _, _)
NormComps(comps, new_comps, rooted) ==
    IF comps = <<>> THEN new_comps
    ELSE LET comp == comps[1]
             n == Len(new_comps)
             next == IF comp \in {<<>>, <<".">>} THEN new_comps
                     ELSE IF \/ comp # <<".", ".">>
                             \/ (~rooted /\ n = 0)
                             \/ (n > 0 /\ new_comps[n] = <<".", ".">>)
                          THEN Append(new_comps, comp)
                     ELSE IF n > 0 THEN SubSeq(new_comps, 1, n - 1)
                     ELSE new_comps
         IN NormComps(Tail(comps), next, rooted)

\* posixpath.normpath: exactly two leading slashes are kept, one or three
\* and more become one.
NormPath(s) ==
    IF s = <<>> THEN <<".">>
    ELSE LET initial_slashes ==
                 IF ~StartsWith(s, <<"/">>) THEN 0
                 ELSE IF StartsWith(s, <<"/", "/">>) /\ ~StartsWith(s, <<"/", "/", "/">>)
                      THEN 2 ELSE 1
             joined == JoinSlash(NormComps(SplitSlash(s), <<>>, initial_slashes > 0))
             whole == [k \in 1..initial_slashes |-> "/"] \o joined
         IN IF whole = <<>> THEN <<".">> ELSE whole

\* posixpath.abspath: a relative path is joined to the working directory.
AbsPath(s) ==
    NormPath(IF StartsWith(s, <<"/">>) THEN s ELSE Cwd \o <<"/">> \o s)

\* Position of the last occurrence of character c in s, 0 when there is none
\* (str.rfind, counted from 1).
RFind(s, c) ==
    IF \E k \in 1..Len(s) : s[k] = c
    THEN CHOOSE k \in 1..Len(s) : s[k] = c /\ \A h \in (k + 1)..Len(s) : s[h] # c
    ELSE 0

\* posixpath.splitext(s)[0]: the extension starts at the last dot of the last
\* component, unless only dots come before it in that component.
SplitExt(s) ==
    LET sepIndex == RFind(s, "/")
        dotIndex == RFind(s, ".")
    IN IF /\ dotIndex > sepIndex
          /\ \E k \in (sepIndex + 1)..(dotIndex - 1) : s[k] # "."
       THEN SubSeq(s, 1, dotIndex - 1)
       ELSE s

\* str.replace(old, new) for a one-character old; new is a text.
RECURSIVE Replace(_, _, _)
Replace(s, old, new) ==
    IF s = <<>> THEN <<>>
    ELSE (IF Head(s) = old THEN new ELSE <<Head(s)>>) \o Replace(Tail(s), old, new)

DotLock == <<".", "l", "o", "c", "k">>

\* What replace(":", ...) of line 149 puts in place of a colon.
ColonBecomesDash == <<"-">>
ColonBecomes == <<>>

lockfile_path(flavor_id, program_path) ==
    LET program_noext == SplitExt(AbsPath(program_path))
        basename == Replace(Replace(Replace(program_noext, "/", <<"-">>),
                                    ":", ColonBecomes),
                            "\\", <<"-">>)
                    \o <<"-">> \o flavor_id \o DotLock
    IN NormPath(TempDir \o <<"/">> \o basename)

\* No call of lockfile_path has been made yet.
NoCall == [made |-> FALSE]

\* A process calls SingleInstance.lockfile_path(flavor_id, program_path).
LockfilePath(flavor_id, program_path) ==
    /\ looked' = [made |-> TRUE, flavor_id |-> flavor_id,
                  program_path |-> program_path,
                  result |-> lockfile_path(flavor_id, program_path)]
    /\ UNCHANGED <<fsVars, procVars, gpVars, last, seen>>

----------------------------------------------------------------------------
\* State after the processes have been created and before any has run.  The
\* lock path is either absent or a residue of an earlier run that crashed:
\* an unlocked file that is empty or holds that run's pid record.

Init ==
    /\ \/ /\ path = None
          /\ content = [i \in Inodes |-> <<>>]
          /\ nextIno = 1
       \/ /\ path = 1
          /\ \E c \in {<<>>} \cup {FormatPid(n) : n \in StalePids} :
                content = [i \in Inodes |-> IF i = 1 THEN c ELSE <<>>]
          /\ nextIno = 2
    /\ lockOwner = [i \in Inodes |-> None]
    /\ pc = [p \in Procs |-> "init"]
    /\ initialized = [p \in Procs |-> FALSE]
    /\ fobj = [p \in Procs |-> None]
    /\ exitcode = [p \in Procs |-> {}]
    /\ gpc = [c \in Callers |-> "idle"]
    /\ ret = RetNone
    /\ last = Nothing
    /\ seen = [p \in Procs |-> {}]
    /\ looked = NoCall

----------------------------------------------------------------------------
\* Kernel operations used by the code.

\* fcntl.lockf(fobj, LOCK_EX | LOCK_NB) is granted unless another process
\* owns the record lock on the inode.
LockfGrantsAll(p, i) == TRUE
LockfGrants(p, i) == lockOwner[i] \in {None, p}

\* Locks of p that the kernel drops when p closes a descriptor of inode i.
CloseDrops(p, i) == [j \in Inodes |->
                        IF j = i /\ lockOwner[j] = p THEN None ELSE lockOwner[j]]

\* Locks the kernel drops when process p dies.
DeathDrops(p) == [j \in Inodes |-> IF lockOwner[j] = p THEN None ELSE lockOwner[j]]

----------------------------------------------------------------------------
\* SingleInstance.__init__ -> Lock.acquire(trylock=True) -> acquire_lockfile

\* fobj = open(lockpath, 'w'): create the file, or truncate the existing one.
AcquireOpen(p) ==
    /\ pc[p] = "init"
    /\ IF path = None
       THEN /\ path' = nextIno
            /\ nextIno' = nextIno + 1
            /\ content' = [content EXCEPT ![nextIno] = <<>>]
            /\ fobj' = [fobj EXCEPT ![p] = nextIno]
       ELSE /\ content' = [content EXCEPT ![path] = <<>>]
            /\ fobj' = [fobj EXCEPT ![p] = path]
            /\ UNCHANGED <<path, nextIno>>
    /\ initialized' = [initialized EXCEPT ![p] = TRUE]
    /\ pc' = [pc EXCEPT ![p] = "opened"]
    /\ last' = Nothing
    /\ seen' = [seen EXCEPT ![p] = {a \in Procs : pc[a] = "holding"}]
    /\ UNCHANGED <<lockOwner, exitcode, gpVars, looked>>

\* fcntl.lockf(fobj, LOCK_EX | LOCK_NB).  On IOError acquire_lockfile returns
\* None, the file object is dropped and closed, __init__ calls sys.exit(-1),
\* and the destructor's release() returns at once because Lock.fobj is None.
AcquireLockf(p) ==
    /\ pc[p] = "opened"
    /\ IF LockfGrants(p, fobj[p])
       THEN /\ lockOwner' = [lockOwner EXCEPT ![fobj[p]] = p]
            /\ pc' = [pc EXCEPT ![p] = "locked"]
            /\ UNCHANGED <<fobj, exitcode>>
       ELSE /\ lockOwner' = CloseDrops(p, fobj[p])
            /\ fobj' = [fobj EXCEPT ![p] = None]
            /\ pc' = [pc EXCEPT ![p] = "duplicate"]
            /\ exitcode' = [exitcode EXCEPT ![p] = {ExitStatus(-1)}]
    /\ last' = Nothing
    /\ UNCHANGED <<path, content, nextIno, initialized, gpVars, seen, looked>>

\* self.fobj.write('%d\n' % os.getpid()); self.fobj.flush(); the constructor
\* returns and func() starts.
WritePid(p) ==
    /\ pc[p] = "locked"
    /\ content' = [content EXCEPT
                     ![fobj[p]] = WriteAtStart(@, FormatPid(PidOf(p)))]
    /\ pc' = [pc EXCEPT ![p] = "holding"]
    /\ last' = Event("wrote", p)
    /\ UNCHANGED <<path, lockOwner, nextIno, initialized, fobj, exitcode, gpVars,
                   seen, looked>>

\* The process dies abruptly (fatal fault or SIGKILL): no destructor runs, the
\* kernel closes its descriptors and with them drops its record locks.
Crash(p) ==
    /\ pc[p] \in {"opened", "locked", "holding", "unlocked", "unlinking",
                  "unlocked2", "unlinking2"}
    /\ lockOwner' = DeathDrops(p)
    /\ pc' = [pc EXCEPT ![p] = "crashed"]
    /\ exitcode' = [exitcode EXCEPT ![p] = {0 - SIGSEGV}]
    /\ gpc' = [gpc EXCEPT ![p] = "idle"]
    /\ last' = IF pc[p] = "holding" /\ last = Event("wrote", p)
               THEN Event("crashed", p) ELSE last
    /\ UNCHANGED <<path, content, nextIno, initialized, fobj, ret, seen, looked>>

----------------------------------------------------------------------------
\* SingleInstance.__del__ -> Lock.release, then Lock.__del__ -> Lock.release

\* fcntl.lockf(self.fobj, LOCK_UN)
Unlocked(p, i) == [lockOwner EXCEPT ![i] = IF @ = p THEN None ELSE @]

\* func() has returned and the guard is destroyed: release() passes the test
\* of line 43 and unlocks.
ReleaseUnlock(p) ==
    /\ pc[p] = "holding"
    /\ gpc[p] = "idle"
    /\ initialized[p] /\ fobj[p] # None
    /\ lockOwner' = Unlocked(p, fobj[p])
    /\ pc' = [pc EXCEPT ![p] = "unlocked"]
    /\ UNCHANGED <<path, content, nextIno, initialized, fobj, exitcode, gpVars,
                   last, seen, looked>>

\* release() ran to its end: the lock object forgets the file, f() returns
\* and the process ends with status 0.
Finish(p, forget) ==
    /\ initialized' = [initialized EXCEPT ![p] = IF forget THEN FALSE ELSE @]
    /\ fobj' = [fobj EXCEPT ![p] = IF forget THEN None ELSE @]
    /\ pc' = [pc EXCEPT ![p] = "done"]
    /\ exitcode' = [exitcode EXCEPT ![p] = {ExitStatus(0)}]
    /\ last' = IF forget THEN Event("released", p) ELSE last

\* if os.path.isfile(self.lockfile)
ReleaseIsFile(p) ==
    /\ pc[p] \in {"unlocked", "unlocked2"}
    /\ IF path # None
       THEN /\ pc' = [pc EXCEPT ![p] = IF pc[p] = "unlocked" THEN "unlinking"
                                       ELSE "unlinking2"]
            /\ UNCHANGED <<lockOwner, initialized, fobj, exitcode, last>>
       ELSE /\ Finish(p, TRUE)
            /\ lockOwner' = DeathDrops(p)
    /\ UNCHANGED <<path, content, nextIno, gpVars, seen, looked>>

\* Exit status of the process after sys.exit(n) is called inside __del__: the
\* SystemExit is an exception of a destructor, which the interpreter reports
\* and drops, so the process goes on and its status stays undecided.  The
\* alternative is an interpreter that lets it end the process.
DestructorExitFatal(p, n) == {ExitStatus(n)}
DestructorExit(p, n) == exitcode[p]

\* os.unlink(self.lockfile).  When the file is gone the OSError leaves
\* release() before line 56.  Raised under SingleInstance.__del__ it is
\* logged, and the SystemExit of sys.exit(-1) is dropped by the interpreter
\* as any exception of a destructor is; the lock object, still initialized,
\* is then destroyed and Lock.__del__ calls release() again, which unlocks
\* first.  Raised under Lock.__del__ it is dropped.
ReleaseUnlink(p) ==
    /\ pc[p] \in {"unlinking", "unlinking2"}
    /\ IF path # None
       THEN /\ path' = None
            /\ Finish(p, TRUE)
            /\ lockOwner' = DeathDrops(p)
       ELSE /\ UNCHANGED path
            /\ IF pc[p] = "unlinking"
               THEN /\ lockOwner' = Unlocked(p, fobj[p])
                    /\ pc' = [pc EXCEPT ![p] = "unlocked2"]
                    /\ exitcode' = [exitcode EXCEPT ![p] = DestructorExit(p, -1)]
                    /\ UNCHANGED <<initialized, fobj, last>>
               ELSE /\ Finish(p, FALSE)
                    /\ lockOwner' = DeathDrops(p)
    /\ UNCHANGED <<content, nextIno, gpVars, seen, looked>>

----------------------------------------------------------------------------
\* SingleInstance.get_pid, called by the observer or by a process from func()

MayLookup(c) == IF c = Observer THEN TRUE ELSE pc[c] = "holding"

\* if os.path.exists(lockpath): otherwise pid stays None and is returned
GetPidExists(c) ==
    /\ MayLookup(c)
    /\ gpc[c] = "idle"
    /\ IF path # None
       THEN /\ gpc' = [gpc EXCEPT ![c] = "checked"]
            /\ UNCHANGED ret
       ELSE /\ ret' = RetNone
            /\ UNCHANGED gpc
    /\ UNCHANGED <<fsVars, procVars, last, seen, looked>>

\* what get_pid makes of the text it read
PidOfText(c) == IF EndsWithNL(c) THEN ParseInt(c) ELSE RetNone

\* c = open(lockpath).read(); if c.endswith('\n'): pid = int(c).  open()
\* raises IOError when the file has gone since the test.  The file object is
\* dropped after read() and so closed, which drops the caller's own record
\* lock on that inode.
GetPidRead(c) ==
    /\ gpc[c] = "checked"
    /\ gpc' = [gpc EXCEPT ![c] = "idle"]
    /\ IF path = None
       THEN /\ ret' = Raised("IOError")
            /\ UNCHANGED lockOwner
       ELSE /\ ret' = PidOfText(content[path])
            /\ lockOwner' = IF c \in Procs THEN CloseDrops(c, path) ELSE lockOwner
    /\ UNCHANGED <<path, content, nextIno, procVars, last, seen, looked>>

----------------------------------------------------------------------------

Next ==
    \/ \E p \in Procs :
          \/ AcquireOpen(p)
          \/ AcquireLockf(p)
          \/ WritePid(p)
          \/ Crash(p)
          \/ ReleaseUnlock(p)
          \/ ReleaseIsFile(p)
          \/ ReleaseUnlink(p)
    \/ \E c \in Callers :
          \/ GetPidExists(c)
          \/ GetPidRead(c)

Spec == Init /\ [][Next]_vars

\* The lock protocol alone: construction, release and crash steps.
NextLock ==
    \E p \in Procs :
       \/ AcquireOpen(p)
       \/ AcquireLockf(p)
       \/ WritePid(p)
       \/ Crash(p)
       \/ ReleaseUnlock(p)
       \/ ReleaseIsFile(p)
       \/ ReleaseUnlink(p)

SpecLock == Init /\ [][NextLock]_vars

\* Concurrent start: the processes only construct their guards; none
\* releases or dies.  The observer may look the pid up meanwhile.
NextStart ==
    \/ \E p \in Procs :
          \/ AcquireOpen(p)
          \/ AcquireLockf(p)
          \/ WritePid(p)
    \/ GetPidExists(Observer)
    \/ GetPidRead(Observer)

SpecStart == Init /\ [][NextStart]_vars

----------------------------------------------------------------------------
\* Vocabulary of the properties.

\* The guard of p is Holding: its constructor has returned, its release has
\* not started and p is alive.
Holding(p) == pc[p] = "holding"

\* acquire has returned a file object to p, which has not started to release
\* it and has not died.
HasLock(p) == pc[p] \in {"locked", "holding"}

\* What a non-blocking acquire by a fresh process would get in this state:
\* it opens the file at the path, or a new one, and needs its lock free.
FreshAcquireSucceeds == path = None \/ lockOwner[path] = None

\* What a get_pid call that runs without interruption returns in this state.
LookupNow == IF path = None THEN RetNone ELSE PidOfText(content[path])

\* Caller c's get_pid call returns (or raises) in this step.
Returns(c) == GetPidRead(c) \/ (GetPidExists(c) /\ path = None)

----------------------------------------------------------------------------
\* C1.  Mutual exclusion: under any interleaving of construction, release and
\* crash steps of the processes using the lock path, at most one live process
\* has had acquire return a file object and not yet released it.
C1_MutualExclusion ==
    \A p, q \in Procs : (HasLock(p) /\ HasLock(q)) => p = q

\* C2.  Duplicate detection: when process a is Holding (it was when b opened
\* the lock path and still is), the non-blocking lock attempt of another
\* process b fails and b ends with the non-zero status of sys.exit(-1),
\* never becoming Holding.
C2_DuplicateDetected ==
    [][\A a, b \in Procs :
          (a # b /\ a \in seen[b] /\ Holding(a) /\ AcquireLockf(b))
             => (pc'[b] = "duplicate" /\ exitcode'[b] = {ExitStatus(-1)})]_vars

\* C3.  Concurrent start: when all processes construct their guard with no
\* lock held beforehand and none releasing or dying, a process ends as a
\* duplicate only while another has the lock, and once every attempt has
\* ended exactly one process is Holding and each other one has ended with
\* the duplicate-instance status.
C3_ConcurrentStart ==
    /\ \A p \in Procs : pc[p] = "duplicate" =>
          \E h \in Procs : h # p /\ HasLock(h)
    /\ (\A p \in Procs : pc[p] \in {"holding", "duplicate"}) =>
          \E h \in Procs :
             /\ Holding(h)
             /\ \A q \in Procs \ {h} :
                   pc[q] = "duplicate" /\ exitcode[q] = {ExitStatus(-1)}

\* All attempts of a concurrent start have ended: one process is Holding and
\* another has ended as a duplicate.
C3_Witness ==
    /\ \A p \in Procs : pc[p] \in {"holding", "duplicate"}
    /\ \E p \in Procs : pc[p] = "duplicate"
    /\ \E p \in Procs : Holding(p)

\* C4.  Crash recovery: when the process that is Holding dies abruptly, the
\* lock file still exists afterwards and a non-blocking acquire by a fresh
\* process succeeds.
C4_CrashRecovery ==
    [][\A p \in Procs :
          (Holding(p) /\ Crash(p)) => (path' # None /\ FreshAcquireSucceeds')]_vars

\* C5.  Normal release: while a guard is Holding the lock file exists at the
\* lock path; when a release ends the file no longer exists there and a
\* non-blocking acquire by a fresh process succeeds.
C5_NormalRelease ==
    [][\A p \in Procs :
          /\ pc'[p] = "holding" => path' # None
          /\ (pc[p] # "done" /\ pc'[p] = "done") =>
                (path' = None /\ FreshAcquireSucceeds')]_vars

\* C6.  Pid lookup while held: a get_pid call by another caller that returns
\* while process p is Holding returns exactly p's process id.
C6_LookupWhileHeld ==
    [][\A c \in Callers, p \in Procs :
          (c # p /\ Holding(p) /\ Returns(c)) => ret' = RetInt(PidOf(p))]_vars

\* C7.  A failed start attempt has no effect on the holder: while process a
\* is Holding and owns the lock of the file at the lock path, the open and
\* the lock attempt of another process leave a Holding and the owner of that
\* lock, leave the file in place and leave its pid record unchanged.
C7_FailedStartNoEffect ==
    [][\A a, b \in Procs :
          (/\ a # b
           /\ Holding(a) /\ path # None /\ lockOwner[path] = a
           /\ (AcquireOpen(b) \/ AcquireLockf(b)))
             => (/\ pc'[a] = "holding"
                 /\ path' = path
                 /\ lockOwner'[path] = a
                 /\ content'[path] = content[path])]_vars

\* C8.  Pid lookup never fails: every get_pid call returns None or an
\* integer; it never raises.
C8_LookupNeverRaises == ret.kind \in {"None", "int"}

\* C9.  Pid lookup after the holder is gone: after a completed release, with
\* no acquire attempt since, get_pid returns None; after the holder crashed,
\* with no acquire attempt since it wrote its pid, get_pid returns that pid.
C9_LookupAfterHolder ==
    /\ last.how = "released" => LookupNow = RetNone
    /\ last.how = "crashed" => LookupNow = RetInt(PidOf(last.who))

\* C10.  Pid lookup is read-only: a step of get_pid, whoever calls it, never
\* waits for the lock and leaves unchanged the owners of the lock, the
\* processes Holding, the lock file and its content.
C10_LookupReadOnly ==
    [][\A c \in Callers :
          /\ gpc[c] = "checked" => ENABLED GetPidRead(c)
          /\ (GetPidExists(c) \/ GetPidRead(c)) =>
                UNCHANGED <<path, content, lockOwner, pc>>]_vars

\* C11.  Release is idempotent: release() on a lock object that is not
\* holding removes no file and changes no other process's lock.  That covers
\* the release of a failed starter (acquire returned None) and the second
\* release() of an object, made by Lock.__del__ after the guard's destructor
\* has already called release(): it never removes a lock file, which by then
\* can only be one that another process has created in between.
C11_ReleaseIdempotent ==
    [][\A p \in Procs :
          /\ (pc[p] = "opened" /\ pc'[p] = "duplicate") =>
                (/\ path' = path
                 /\ \A i \in Inodes : lockOwner[i] # p => lockOwner'[i] = lockOwner[i])
          /\ (pc[p] \in {"unlocked2", "unlinking2"} /\ pc'[p] \in {"unlinking2", "done"}) =>
                (path' = path /\ lockOwner' = lockOwner)]_vars

\* C19.  The lock path always names the locked file: whenever a process is
\* Holding, the file at the lock path is the file it has locked, and no
\* release unlinks a file on which another process holds the lock.
C19_PathNamesLockedFile ==
    [][\A p \in Procs :
          /\ pc'[p] = "holding" => path' = fobj'[p]
          /\ (ReleaseUnlink(p) /\ path # None) => lockOwner[path] \in {None, p}]_vars

----------------------------------------------------------------------------
\* Failures of the system calls of acquire_lockfile that are not contention.

\* open(lockpath, 'w') raises IOError (permission denied, missing directory).
\* Line 87 is outside the try block: the error leaves acquire_lockfile,
\* Lock.acquire (after line 33 has set initialized) and the constructor, and
\* the process ends on the uncaught exception with status 1.
AcquireOpenFault(p) ==
    /\ pc[p] = "init"
    /\ initialized' = [initialized EXCEPT ![p] = TRUE]
    /\ pc' = [pc EXCEPT ![p] = "error"]
    /\ exitcode' = [exitcode EXCEPT ![p] = {ExitStatus(1)}]
    /\ last' = Nothing
    /\ UNCHANGED <<fsVars, fobj, gpVars, seen, looked>>

\* fcntl.lockf raises IOError for a reason other than a lock held elsewhere
\* (ENOLCK: no locks available, EINTR: interrupted call).  Line 93 catches
\* every IOError: acquire_lockfile returns None exactly as under contention.
AcquireLockfFault(p) ==
    /\ pc[p] = "opened"
    /\ lockOwner' = CloseDrops(p, fobj[p])
    /\ fobj' = [fobj EXCEPT ![p] = None]
    /\ pc' = [pc EXCEPT ![p] = "duplicate"]
    /\ exitcode' = [exitcode EXCEPT ![p] = {ExitStatus(-1)}]
    /\ last' = Nothing
    /\ UNCHANGED <<path, content, nextIno, initialized, gpVars, seen, looked>>

\* Construction, release and crash, with system calls that may fail.
NextFault ==
    \/ NextLock
    \/ \E p \in Procs : AcquireOpenFault(p) \/ AcquireLockfFault(p)

SpecFault == Init /\ [][NextFault]_vars

\* C14.  Contention is distinguished from I/O failure: a start ends in the
\* duplicate-instance outcome (acquire returned None) only when another
\* process owns the record lock on the file the starter opened; any other
\* failure of open or lockf ends the start as an error that is not the
\* duplicate-instance outcome.
C14_ContentionOnly ==
    [][\A p \in Procs :
          (pc[p] # "duplicate" /\ pc'[p] = "duplicate") =>
              \E q \in Procs \ {p} : lockOwner[fobj[p]] = q]_vars

\* C16.  No false 'still running': when a non-blocking acquire returns None,
\* some other process that is alive got its lock on the same file in an
\* earlier step and still has it; a lock file that no live process has locked
\* never makes the lock attempt fail.
C16_NoFalseStillRunning ==
    [][\A p \in Procs :
          /\ pc'[p] = "duplicate" /\ pc[p] = "opened" =>
                \E q \in Procs \ {p} : /\ HasLock(q)
                                       /\ exitcode[q] = {}
                                       /\ fobj[q] = fobj[p]
          /\ (pc[p] = "opened" /\ pc'[p] # pc[p] /\ pc'[p] # "crashed"
                /\ \A q \in Procs \ {p} : ~(HasLock(q) /\ fobj[q] = fobj[p])) =>
                pc'[p] = "locked"]_vars

\* The guard of p has ended Released: p has left f() normally and owns no
\* record lock.
Released(p) == pc[p] = "done" /\ \A i \in Inodes : lockOwner[i] # p

\* C15.  Cleanup failure is never fatal: a step of release in which os.unlink
\* fails (the file was removed by another process after the isfile test)
\* does not end the process and sets no exit status other than that of a
\* normal end, and leaves p without any record lock; a process whose cleanup
\* failed still ends Released with exit status 0.
C15_CleanupNeverFatal ==
    [][\A p \in Procs :
          /\ (pc[p] \in {"unlinking", "unlinking2"} /\ path = None
                /\ pc'[p] \notin {pc[p], "crashed"}) =>
                (/\ exitcode'[p] \subseteq {ExitStatus(0)}
                 /\ pc'[p] \in {"unlocked2", "done"}
                 /\ \A i \in Inodes : lockOwner'[i] # p)
          /\ (pc[p] \in {"unlocked2", "unlinking2"} /\ pc'[p] = "done") =>
                (Released(p)' /\ exitcode'[p] = {ExitStatus(0)})]_vars

\* A process whose first release() failed at os.unlink is still running: the
\* failure has been logged and its destructor goes on.
C15_Witness ==
    \E p \in Procs : pc[p] = "unlocked2" /\ exitcode[p] = {} /\ path = None

----------------------------------------------------------------------------
\* Calls of lockfile_path alone.
NextPath == \E f \in Flavors, pp \in ProgramPaths : LockfilePath(f, pp)

SpecPath == Init /\ [][NextPath]_vars

\* The program a program path names: its absolute path without extension.
ProgramNoExt(program_path) == SplitExt(AbsPath(program_path))

\* C12.  Identity derivation is deterministic and collision-free: of two
\* calls of lockfile_path, the same program path and flavor give the same
\* path, two flavors of the same program path give different paths, and
\* program paths that name different programs give different paths under the
\* same flavor.
C12_PathIdentity ==
    [][(looked.made /\ looked'.made) =>
          LET samePath == looked'.program_path = looked.program_path
              sameFlavor == looked'.flavor_id = looked.flavor_id
              sameResult == looked'.result = looked.result
          IN /\ (samePath /\ sameFlavor) => sameResult
             /\ (samePath /\ ~sameFlavor) => ~sameResult
             /\ (sameFlavor /\ ProgramNoExt(looked'.program_path)
                                 # ProgramNoExt(looked.program_path)) => ~sameResult]_vars

\* The text s with every '/' and '\' replaced by '-' and every ':' replaced by
\* the text colon, in one pass.
RECURSIVE Sanitized(_, _)
Sanitized(s, colon) ==
    IF s = <<>> THEN <<>>
    ELSE (IF Head(s) \in {"/", "\\"} THEN <<"-">>
          ELSE IF Head(s) = ":" THEN colon
          ELSE <<Head(s)>>) \o Sanitized(Tail(s), colon)

\* <temp dir>/<name>-<flavor>.lock
LockName(name, flavor_id) ==
    TempDir \o <<"/">> \o name \o <<"-">> \o flavor_id \o DotLock

----------------------------------------------------------------------------
\* lockfile.py: a process runs `with FileLock(path): body`, as test_context
\* does, and may do so again once it has left the block.

\* Number of processes that use FileLock on the path.
NumUsers == 2

Users == 1..NumUsers

\* fcntl.lockf(fobj, LOCK_EX) without LOCK_NB (block=True, lines 87-89) puts
\* the caller to sleep while another process owns the lock.
LockfWaitsNot(p, i) == FALSE
LockfWaits(p, i) == TRUE

\* __enter__ -> acquire() -> acquire_lockfile: fobj = open(lockpath, 'w').
\* A new file is created only while an unused inode is left: one for each
\* user of the path.
FileOpen(p) ==
    /\ pc[p] = "init"
    /\ IF path = None
       THEN /\ nextIno <= NumUsers
            /\ path' = nextIno
            /\ nextIno' = nextIno + 1
            /\ content' = [content EXCEPT ![nextIno] = <<>>]
            /\ fobj' = [fobj EXCEPT ![p] = nextIno]
            /\ seen' = [seen EXCEPT ![p] = {}]
       ELSE /\ content' = [content EXCEPT ![path] = <<>>]
            /\ fobj' = [fobj EXCEPT ![p] = path]
            /\ seen' = [seen EXCEPT ![p] =
                          {q \in Users \ {p} : pc[q] = "body" /\ lockOwner[path] = q}]
            /\ UNCHANGED <<path, nextIno>>
    /\ initialized' = [initialized EXCEPT ![p] = TRUE]
    /\ pc' = [pc EXCEPT ![p] = "waiting"]
    /\ last' = Nothing
    /\ UNCHANGED <<lockOwner, exitcode, gpVars, looked>>

\* fcntl.lockf(fobj, LOCK_EX) returns: the kernel has granted the lock, the
\* file object is returned and the body starts.  While another process owns
\* the lock the call does not return.  (A call that did not wait would raise
\* IOError, and acquire would return None.)
FileLockf(p) ==
    /\ pc[p] = "waiting"
    /\ IF LockfGrants(p, fobj[p])
       THEN /\ lockOwner' = [lockOwner EXCEPT ![fobj[p]] = p]
            /\ pc' = [pc EXCEPT ![p] = "body"]
            /\ UNCHANGED fobj
       ELSE /\ ~LockfWaits(p, fobj[p])
            /\ lockOwner' = CloseDrops(p, fobj[p])
            /\ fobj' = [fobj EXCEPT ![p] = None]
            /\ pc' = [pc EXCEPT ![p] = "unlocked_body"]
    /\ last' = Nothing
    /\ UNCHANGED <<path, content, nextIno, initialized, exitcode, gpVars, seen,
                   looked>>

\* The sleeping call is interrupted by a signal and raises IOError (EINTR):
\* line 91 catches it, acquire returns None, __enter__ returns None and the
\* body of the with statement starts all the same.
FileLockfInterrupted(p) ==
    /\ pc[p] = "waiting"
    /\ ~LockfGrants(p, fobj[p])
    /\ lockOwner' = CloseDrops(p, fobj[p])
    /\ fobj' = [fobj EXCEPT ![p] = None]
    /\ pc' = [pc EXCEPT ![p] = "unlocked_body"]
    /\ last' = Event("interrupted", p)
    /\ UNCHANGED <<path, content, nextIno, initialized, exitcode, gpVars, seen,
                   looked>>

\* release() ran to line 49: the object forgets the file and the process
\* goes on after the with statement.
FileLeft(p) ==
    /\ initialized' = [initialized EXCEPT ![p] = FALSE]
    /\ fobj' = [fobj EXCEPT ![p] = None]
    /\ lockOwner' = DeathDrops(p)
    /\ pc' = [pc EXCEPT ![p] = IF pc[p] \in {"f_unlocked", "f_unlinking"}
                               THEN "left" ELSE "raised"]
    /\ exitcode' = [exitcode EXCEPT ![p] = IF pc[p] \in {"f_unlocked", "f_unlinking"}
                                           THEN @ ELSE {ExitStatus(1)}]

\* The body ends, __exit__ calls release(): with a file object it unlocks
\* (line 43), without one it returns at line 35.
FileUnlock(p) ==
    /\ \/ /\ pc[p] = "body"
          /\ lockOwner' = Unlocked(p, fobj[p])
          /\ pc' = [pc EXCEPT ![p] = "f_unlocked"]
       \/ /\ pc[p] = "unlocked_body"
          /\ pc' = [pc EXCEPT ![p] = "left"]
          /\ UNCHANGED lockOwner
    /\ seen' = [seen EXCEPT ![p] = {}]
    /\ UNCHANGED <<path, content, nextIno, initialized, fobj, exitcode, gpVars,
                   last, looked>>

\* if os.path.isfile(self.lockfile)
FileIsFile(p) ==
    /\ pc[p] \in {"f_unlocked", "f_unlocked2"}
    /\ IF path # None
       THEN /\ pc' = [pc EXCEPT ![p] = IF pc[p] = "f_unlocked" THEN "f_unlinking"
                                       ELSE "f_unlinking2"]
            /\ UNCHANGED <<lockOwner, initialized, fobj, exitcode>>
       ELSE FileLeft(p)
    /\ UNCHANGED <<path, content, nextIno, gpVars, last, seen, looked>>

\* os.unlink(self.lockfile).  When the file is gone the OSError leaves
\* release() and __exit__ with the object still initialized and ends the
\* with statement; the object is destroyed, FileLock.__del__ calls release()
\* again, which unlocks first, and the process ends on the uncaught error
\* with status 1.
FileUnlink(p) ==
    /\ pc[p] \in {"f_unlinking", "f_unlinking2"}
    /\ IF path # None
       THEN /\ path' = None
            /\ FileLeft(p)
       ELSE /\ UNCHANGED path
            /\ lockOwner' = IF pc[p] = "f_unlinking" THEN Unlocked(p, fobj[p])
                            ELSE DeathDrops(p)
            /\ pc' = [pc EXCEPT ![p] = IF pc[p] = "f_unlinking" THEN "f_unlocked2"
                                       ELSE "raised"]
            /\ exitcode' = [exitcode EXCEPT ![p] = IF pc[p] = "f_unlinking" THEN @
                                                   ELSE {ExitStatus(1)}]
            /\ UNCHANGED <<initialized, fobj>>
    /\ UNCHANGED <<content, nextIno, gpVars, last, seen, looked>>

\* The process reaches its next with statement on the same path.
FileAgain(p) ==
    /\ pc[p] = "left"
    /\ pc' = [pc EXCEPT ![p] = "init"]
    /\ UNCHANGED <<fsVars, initialized, fobj, exitcode, gpVars, last, seen, looked>>

\* The process dies abruptly inside the with statement.
FileCrash(p) ==
    /\ pc[p] \in {"waiting", "body", "unlocked_body", "f_unlocked", "f_unlinking",
                  "f_unlocked2", "f_unlinking2"}
    /\ lockOwner' = DeathDrops(p)
    /\ pc' = [pc EXCEPT ![p] = "crashed"]
    /\ exitcode' = [exitcode EXCEPT ![p] = {0 - SIGSEGV}]
    /\ seen' = [seen EXCEPT ![p] = {}]
    /\ UNCHANGED <<path, content, nextIno, initialized, fobj, gpVars, last, looked>>

NextFile ==
    \E p \in Users :
        \/ FileOpen(p)
        \/ FileLockf(p)
        \/ FileLockfInterrupted(p)
        \/ FileUnlock(p)
        \/ FileIsFile(p)
        \/ FileUnlink(p)
        \/ FileAgain(p)
        \/ FileCrash(p)

SpecFile == Init /\ [][NextFile]_vars

\* Fair scheduling: a process that can take a step of release() takes it (the
\* body is finite), and a sleeping lockf call that the kernel can grant again
\* and again is granted.  Signals and crashes are under no obligation.
FairSpecFile ==
    /\ SpecFile
    /\ \A p \in Users :
          /\ WF_vars(FileUnlock(p))
          /\ WF_vars(FileIsFile(p))
          /\ WF_vars(FileUnlink(p))
          /\ SF_vars(FileLockf(p))

\* p is in the body of its with statement.
InBody(p) == pc[p] \in {"body", "unlocked_body"}

C18_ContextManager ==
    [][\A p \in Procs :
          /\ InBody(p)' =>
                (/\ fobj'[p] # None
                 /\ path' = fobj'[p]
                 /\ lockOwner'[fobj'[p]] = p
                 /\ \A q \in Procs \ {p} : ~InBody(q)')
          /\ (pc[p] # "left" /\ pc'[p] = "left") =>
                (/\ path' = None
                 /\ ~initialized'[p] /\ fobj'[p] = None
                 /\ \A i \in Inodes : lockOwner'[i] # p)]_vars

====
